---------------------------- MODULE Spec2Model ----------------------------
(***************************************************************************)
(* Closed-loop IV therapy controller: StateEstimator, SafetyMonitor,       *)
(* AdaptiveController and the AIIVSystem control loop.                      *)
(*                                                                         *)
(* Fixed-point conventions (the source computes in double):                *)
(*   rates                 1 = 0.01 ml/min                                   *)
(*   time, durations       1 = 200 ms = 1/300 min (one control period)       *)
(*   volumes               1 = 1/30000 ml  (= rate unit * duration unit)     *)
(*   unit-interval values  1 = 0.001                                         *)
(*   percentages, degrees C, mmol/L, L/min   1 = 0.1                         *)
(*   heart rate, weight, age                 1 = 1 bpm / kg / year           *)
(* Comparisons against thresholds are exact on these grids; exp() is a     *)
(* table with linear interpolation.                                        *)
(***************************************************************************)
EXTENDS Integers, Sequences, FiniteSets, TLC

VARIABLES
    profile,               \* PatientProfile of the session (immutable)
    clock,                 \* std::chrono::steady_clock::now()
    \* ---- SafetyMonitor members
    cumulative_volume_ml,
    max_volume_24h_ml,
    recent_rates,
    last_check,
    \* ---- StateEstimator members
    history,
    telemetry_history,
    \* ---- AdaptiveController members
    last_command,
    \* ---- AIIVSystem::start locals and members
    pc,
    ticks,
    next_tick,
    start_time,
    current_infusion_rate,
    state,
    command,
    prev_command,
    \* ---- what the callers saw (return values)
    check,                 \* arguments, result and ceiling trace of the latest evaluate
    eval_run,              \* evaluate calls since the latest update_volume / reset_24h_counter
    volume_seen,           \* get_cumulative_volume() before and after the latest update_volume
    returned,              \* every PatientState returned by estimate, in call order
    changes,               \* times the input fed by a test-style caller changed level
    calls,                 \* number of API calls made by a test-style caller
    forecast,              \* arguments and result of the latest predict_forward since
                           \* the latest estimate
    applied,               \* the rate argument of every update_volume, in call order
    evaluations,           \* number of evaluate calls made
    \* ---- AIIVSystem::running and the thread of main() that calls stop()
    running,               \* bool running: written by both threads, no synchronisation
    caller,                \* position of main(): "run", "stopped" (stop() returned), "joined"
    stop_mark,             \* number of iterations begun when stop() was called
    \* ---- RestApiServer members and the two threads that use them
    data_mutex_,           \* "free", or the thread that holds it: "control", "server"
    store,                 \* current_telemetry_, current_state_, current_control_,
                           \* recent_alerts_, current_config_, telemetry_history_
    updater,               \* the update_* call the control thread is in
    handler,               \* the handle_* call the server thread is in
    response,              \* the body returned by the latest handle_* call
    completed,             \* per update method, the payloads of the calls that returned
    \* ---- StateEstimator.cpp built with ENABLE_NEURAL_ESTIMATOR: the statics
    neural,                \* g_neural_init, g_neural_estimator.loaded_, and what was
                           \* seen of them: load calls, warnings, predict calls
    \* ---- a long session
    steady_run             \* the iterations of the loop taken at once: how many, and
                           \* after how many listed ones (they are not listed in
                           \* `returned` and `applied`)

vars == <<profile, clock, cumulative_volume_ml, max_volume_24h_ml, recent_rates,
          last_check, history, telemetry_history, last_command, pc, ticks,
          next_tick, start_time, current_infusion_rate, state, command,
          prev_command, check, eval_run, volume_seen, returned, changes, calls,
          forecast, applied, evaluations, running, caller, stop_mark,
          data_mutex_, store, updater, handler, response, completed, neural,
          steady_run>>

monitorVars   == <<cumulative_volume_ml, max_volume_24h_ml, recent_rates, last_check>>
estimatorVars == <<history, telemetry_history, returned, changes, forecast>>
seenVars      == <<check, eval_run, volume_seen, applied, evaluations>>
shutdownVars  == <<running, caller, stop_mark>>
apiVars       == <<data_mutex_, store, updater, handler, response, completed>>
loopVars      == <<pc, ticks, next_tick, start_time, current_infusion_rate, state,
                   command, prev_command, last_command>>

-----------------------------------------------------------------------------
(* Scales of the fixed-point grids *)
RateScale == 10 * 10          \* rate units per ml/min
Unit      == 10 * 100         \* 1.0 of a unit-interval quantity
Tenth     == 2 * 5            \* units per percent, degree, mmol/L, L/min
PeriodsPerMin == 3 * 100      \* 200 ms periods in a minute
VolPerMl  == RateScale * PeriodsPerMin

(* Bounds of the model *)
MaxCalls    == 3              \* API calls of a test-style caller of the monitor
MaxClock    == 2              \* ten-minute waits of that caller
MaxTicks    == 5              \* iterations of the control loop
MaxOverrun  == 1              \* periods by which an iteration may overrun its deadline
MaxEstimates == 52            \* estimate calls of a test-style caller of the estimator
MaxChanges  == 1              \* changes of the telemetry level while that caller runs
MaxUpdates  == 22             \* update_volume calls of a caller that fills the rate ring
MaxRingEvaluations == 2       \* evaluate calls of that caller
MaxForecastHistory == 8       \* estimate calls after which that caller still asks for forecasts

-----------------------------------------------------------------------------
(* <algorithm>, <cmath> *)
Min(a, b) == IF a < b THEN a ELSE b
Max(a, b) == IF a > b THEN a ELSE b
Abs(a)    == IF a < 0 THEN -a ELSE a
Last(s)   == s[Len(s)]

clamp(v, lo, hi) == Max(lo, Min(v, hi))

-----------------------------------------------------------------------------
(* config_defaults.hpp and the literals of SafetyMonitor.cpp *)
MIN_INFUSION_RATE   == 10      \* 0.1 ml/min: the literal 0.1 of checks 6 and of decide's clamp
MAX_RATE_CHANGE     == 30      \* 0.3 ml/min per control cycle
MIN_CARDIAC_RESERVE == 200     \* 0.2
MAX_RISK_THRESHOLD  == 750     \* 0.75
VOLUME_CAP          == 30      \* 0.3 ml/min
CARDIAC_CAP         == 50      \* 0.5 ml/min
RISK_CAP            == 60      \* 0.6 ml/min
TACHY_CAP           == 40      \* 0.4 ml/min
CRITICAL_HYDRATION  == 500     \* 50.0 %
DAILY_VOLUME_PER_KG_ML == 35
RATE_RING_SIZE      == 20

(* iv_system_types.hpp: EnergyTransferParams() *)
DefaultEnergyParams ==
    [P_baseline |-> 100, P_iv_supplement |-> 35, P_energy_cells |-> 0,
     I_sp_standard |-> 12, I_sp_atp_loaded |-> 45, I_sp_mitochondrial |-> 80,
     eta_brain_heart |-> 900, eta_muscle |-> 750, eta_ischemic |-> 400,
     v_optimal_cm_s |-> 200, sigma_velocity |-> 50]

(* The profiles of main(), of tests/test_safety_monitor.cpp, and of a cardiac *)
(* and renal patient with a lower cap                                         *)
Profiles ==
    { [weight_kg |-> 75, age_years |-> 35, cardiac_condition |-> FALSE,
       renal_impairment |-> FALSE, diabetes |-> FALSE, baseline_hr_bpm |-> 70,
       max_safe_infusion_rate |-> 150, energy_params |-> DefaultEnergyParams,
       current_tissue_perfusion |-> 850],
      [weight_kg |-> 70, age_years |-> 35, cardiac_condition |-> FALSE,
       renal_impairment |-> FALSE, diabetes |-> FALSE, baseline_hr_bpm |-> 70,
       max_safe_infusion_rate |-> 150, energy_params |-> DefaultEnergyParams,
       current_tissue_perfusion |-> 850],
      [weight_kg |-> 70, age_years |-> 60, cardiac_condition |-> TRUE,
       renal_impairment |-> TRUE, diabetes |-> FALSE, baseline_hr_bpm |-> 70,
       max_safe_infusion_rate |-> 100, energy_params |-> DefaultEnergyParams,
       current_tissue_perfusion |-> 850] }

(* The profiles a session is run with: that of main() and the cardiac and    *)
(* renal patient's                                                            *)
SessionProfiles == {p \in Profiles : p.weight_kg = 75 \/ p.cardiac_condition}

(* The profiles a test-style caller of the estimator passes: 70 kg, as in     *)
(* tests/test_state_estimator.cpp                                             *)
TestProfiles == {p \in Profiles : p.weight_kg = 70}

-----------------------------------------------------------------------------
(* SafetyMonitor *)

(* SafetyMonitor::SafetyMonitor: the 24 h volume ceiling *)
MaxVolume24h(prof) ==
    LET v0 == prof.weight_kg * DAILY_VOLUME_PER_KG_ML * VolPerMl
        v1 == IF prof.cardiac_condition THEN (v0 * 7) \div 10 ELSE v0
        v2 == IF prof.renal_impairment THEN (v1 * 6) \div 10 ELSE v1
    IN  v2

(* Check 1: requested_rate * 60.0 * elapsed_h, elapsed_h read off the wall clock *)
ProjectedVolume(cum, requested_rate, elapsed) == cum + requested_rate * elapsed

(* the 90 % margin forgotten *)
VolumeLimitHitNoMargin(cum, maxvol, requested_rate, elapsed) ==
    ProjectedVolume(cum, requested_rate, elapsed) > maxvol

VolumeLimitHit(cum, maxvol, requested_rate, elapsed) ==
    ProjectedVolume(cum, requested_rate, elapsed) > (maxvol * 9) \div 10

(* the warning given and the ceiling left alone *)
CheckVolumeWarningOnly(c, cum, maxvol, requested_rate, elapsed) == c

CheckVolume(c, cum, maxvol, requested_rate, elapsed) ==
    IF VolumeLimitHit(cum, maxvol, requested_rate, elapsed) THEN Min(c, VOLUME_CAP) ELSE c

(* Check 2 *)
LowCardiacReserve(st) == st.cardiac_reserve < MIN_CARDIAC_RESERVE

(* std::max for std::min *)
CheckCardiacLoosened(c, st) == IF LowCardiacReserve(st) THEN Max(c, CARDIAC_CAP) ELSE c

CheckCardiac(c, st) == IF LowCardiacReserve(st) THEN Min(c, CARDIAC_CAP) ELSE c

(* Check 3 *)
(* std::abs left out: only a fall is seen *)
RateChangeHitFallOnly(requested_rate, rates) ==
    /\ rates # <<>>
    /\ Last(rates) - requested_rate > MAX_RATE_CHANGE

RateChangeHit(requested_rate, rates) ==
    /\ rates # <<>>
    /\ Abs(requested_rate - Last(rates)) > MAX_RATE_CHANGE

(* the sign of the step not chosen by the direction of the request *)
LimitedAlwaysDown(requested_rate, back) == back - MAX_RATE_CHANGE

Limited(requested_rate, back) ==
    back + (IF requested_rate > back THEN MAX_RATE_CHANGE ELSE -MAX_RATE_CHANGE)

(* the limited rate assigned instead of folded in with std::min *)
CheckRateChangeAssigned(c, requested_rate, rates) ==
    IF RateChangeHit(requested_rate, rates)
    THEN Limited(requested_rate, Last(rates))
    ELSE c

CheckRateChange(c, requested_rate, rates) ==
    IF RateChangeHit(requested_rate, rates)
    THEN Min(c, Limited(requested_rate, Last(rates)))
    ELSE c

(* Check 4 *)
(* < for > *)
HighRiskInverted(st) == st.risk_score < MAX_RISK_THRESHOLD

HighRisk(st) == st.risk_score > MAX_RISK_THRESHOLD

CheckRisk(c, st) == IF HighRisk(st) THEN Min(c, RISK_CAP) ELSE c

(* Check 5: heart_rate_bpm > baseline_hr_bpm * 1.4 *)
(* 1.6 for 1.4 *)
TachycardiaAbove160(st, prof) == st.heart_rate_bpm * 10 > prof.baseline_hr_bpm * 16

Tachycardia(st, prof) == st.heart_rate_bpm * 10 > prof.baseline_hr_bpm * 14

(* the infusion stopped on tachycardia instead of capped *)
CheckTachycardiaStopping(c, st, prof) == IF Tachycardia(st, prof) THEN 0 ELSE c

CheckTachycardia(c, st, prof) == IF Tachycardia(st, prof) THEN Min(c, TACHY_CAP) ELSE c

(* Check 6 *)
(* the hydration condition dropped *)
EmergencyFloorAnyHydration(c, st) == c < MIN_INFUSION_RATE

EmergencyFloorHit(c, st) ==
    c < MIN_INFUSION_RATE /\ st.hydration_pct < CRITICAL_HYDRATION

CheckMinimum(c, st) == IF EmergencyFloorHit(c, st) THEN MIN_INFUSION_RATE ELSE c

(* result.max_allowed_rate after construction and after each of the checks 1-5 *)
CeilingTrace(prof, cum, maxvol, rates, requested_rate, st, elapsed) ==
    LET c0 == prof.max_safe_infusion_rate
        c1 == CheckVolume(c0, cum, maxvol, requested_rate, elapsed)
        c2 == CheckCardiac(c1, st)
        c3 == CheckRateChange(c2, requested_rate, rates)
        c4 == CheckRisk(c3, st)
        c5 == CheckTachycardia(c4, st, prof)
    IN  <<c0, c1, c2, c3, c4, c5>>

Token(cond, name) == IF cond THEN <<name>> ELSE <<>>

(* SafetyMonitor::evaluate(requested_rate, state): the SafetyCheck returned when  *)
(* steady_clock::now() - last_check is `elapsed`                                  *)
evaluate(prof, cum, maxvol, rates, requested_rate, st, elapsed) ==
    LET tr == CeilingTrace(prof, cum, maxvol, rates, requested_rate, st, elapsed)
        c5 == tr[6]
        c6 == CheckMinimum(c5, st)
        w  == Token(VolumeLimitHit(cum, maxvol, requested_rate, elapsed), "VOLUME_LIMIT_APPROACH")
              \o Token(LowCardiacReserve(st), "LOW_CARDIAC_RESERVE")
              \o Token(RateChangeHit(requested_rate, rates), "RATE_CHANGE_LIMITED")
              \o Token(HighRisk(st), "HIGH_RISK_STATE")
              \o Token(Tachycardia(st, prof), "TACHYCARDIA_DETECTED")
              \o Token(EmergencyFloorHit(c5, st), "EMERGENCY_MIN_RATE")
    IN  [passed |-> (c6 >= MIN_INFUSION_RATE), max_allowed_rate |-> c6, warnings |-> w]

Has(warnings, name) == \E i \in 1..Len(warnings) : warnings[i] = name

(* pop_back for pop_front *)
PushRateDropNewest(rates, rate) ==
    LET r == Append(rates, rate)
    IN  IF Len(r) > RATE_RING_SIZE THEN SubSeq(r, 1, Len(r) - 1) ELSE r

(* SafetyMonitor::update_volume *)
PushRate(rates, rate) ==
    LET r == Append(rates, rate)
    IN  IF Len(r) > RATE_RING_SIZE THEN Tail(r) ELSE r

(* -= for += *)
AddVolumeSubtracting(cum, rate_ml_per_min, duration_min) == cum - rate_ml_per_min * duration_min

AddVolume(cum, rate_ml_per_min, duration_min) == cum + rate_ml_per_min * duration_min


-----------------------------------------------------------------------------
(* Utils.hpp *)

(* exp() tables at the integers 0..8, in thousandths *)
LogisticTable == <<500, 731, 881, 953, 982, 993, 998, 999, 1000>>
ExpDecayTable == <<1000, 368, 135, 50, 18, 7, 2, 1, 0>>
ExpGrowTable  == <<1000, 2718, 7389, 20086, 54598, 148413, 403429, 1096633, 2980958>>

(* tab at z/1000 for z >= 0, linear between the integers, constant past the end *)
Interp(tab, z) ==
    LET i == z \div Unit
        f == z % Unit
    IN  IF i >= Len(tab) - 1
        THEN tab[Len(tab)]
        ELSE tab[i + 1] + ((tab[i + 2] - tab[i + 1]) * f) \div Unit

(* 1 / (1 + exp(-z/1000)) *)
Logistic(z) == IF z >= 0 THEN Interp(LogisticTable, z) ELSE Unit - Interp(LogisticTable, -z)

(* exp(-y/1000) *)
ExpNeg(y) == IF y >= 0 THEN Interp(ExpDecayTable, y) ELSE Interp(ExpGrowTable, -y)

(* Utils::sigmoid; steepness in thousandths per grid unit of x *)
sigmoid(x, center, steepness) == Logistic(steepness * (x - center))

(* Utils::exponential_decay; rate in thousandths per grid unit of x *)
exponential_decay(x, rate) == ExpNeg(rate * x)

(* Utils::gaussian *)
gaussian(x, center, sigma) ==
    IF sigma <= 0 THEN 0
    ELSE LET z == ((x - center) * Unit) \div sigma
         IN  ExpNeg((z * z) \div (2 * Unit))

-----------------------------------------------------------------------------
(* StateEstimator *)
MAX_HISTORY      == 50
FORECAST_HISTORY == 5      \* history.size() < 5 in predict_forward
HR_VAR_LIMIT     == 400    \* bpm^2

(* the last n elements of s *)
LastN(s, n) == SubSeq(s, Len(s) - n + 1, Len(s))

SumSq(hrs, hr) ==
    LET RECURSIVE go(_)
        go(i) == IF i = 0 THEN 0 ELSE (hrs[i] - hr) * (hrs[i] - hr) + go(i - 1)
    IN  go(Len(hrs))

(* the final clamp left out *)
CoherenceUnclamped(m, thist) ==
    LET b0 == m.signal_quality
        b1 == IF m.heart_rate_bpm < 40 \/ m.heart_rate_bpm > 180 THEN (b0 * 5) \div 10 ELSE b0
        b2 == IF m.temp_celsius < 350 \/ m.temp_celsius > 400 THEN (b1 * 7) \div 10 ELSE b1
    IN  IF m.spo2_pct < 850 THEN (b2 * 6) \div 10 ELSE b2

(* StateEstimator::calculate_coherence *)
calculate_coherence(m, thist) ==
    LET b0 == m.signal_quality
        b1 == IF m.heart_rate_bpm < 40 \/ m.heart_rate_bpm > 180 THEN (b0 * 5) \div 10 ELSE b0
        b2 == IF m.temp_celsius < 350 \/ m.temp_celsius > 400 THEN (b1 * 7) \div 10 ELSE b1
        b3 == IF m.spo2_pct < 850 THEN (b2 * 6) \div 10 ELSE b2
        b4 == IF Len(thist) >= 5
              THEN LET last5 == LastN(thist, 5)
                       hrs   == [i \in 1..5 |-> last5[i].heart_rate_bpm]
                   IN  IF SumSq(hrs, m.heart_rate_bpm) > HR_VAR_LIMIT * 5
                       THEN (b3 * 7) \div 10 ELSE b3
              ELSE b3
    IN  clamp(b4, Unit \div 10, Unit)

(* StateEstimator::estimate_flow_velocity, in 0.01 cm/s *)
estimate_flow_velocity(m, infusion_rate_ml_min, weight_kg) ==
    LET total_flow == m.cardiac_output_L_min * 10000 + infusion_rate_ml_min  \* 1/6000 ml/s
        area2      == Max(2, weight_kg)                                       \* 0.5 cm^2
    IN  clamp(total_flow \div (30 * area2), 5, 4000)

(* StateEstimator::calculate_tissue_efficiency *)
calculate_tissue_efficiency(m, params, perfusion_state) ==
    LET e0 == params.eta_muscle
        e1 == IF m.spo2_pct < 900
              THEN (e0 * (Unit - clamp((900 - m.spo2_pct) * 5, 0, 600))) \div Unit
              ELSE e0
        e2 == (e1 * (Unit + perfusion_state)) \div (2 * Unit)
        e3 == IF m.temp_celsius < 360
              THEN (e2 * (Unit - clamp((360 - m.temp_celsius) * 20, 0, 400))) \div Unit
              ELSE e2
    IN  clamp(e3, params.eta_ischemic, params.eta_brain_heart)

(* StateEstimator::calculate_energy_transfer_absolute, in 0.001 W/kg *)
calculate_energy_transfer_absolute(m, params, infusion_rate_ml_min, weight_kg, perfusion_state) ==
    LET P_input == params.P_baseline + params.P_iv_supplement + params.P_energy_cells
        v       == estimate_flow_velocity(m, infusion_rate_ml_min, weight_kg)
        G_v     == gaussian(v, params.v_optimal_cm_s * 10, params.sigma_velocity * 10)
        eta     == calculate_tissue_efficiency(m, params, perfusion_state)
        \* m_dot * I_sp = rate / 60000 * 1.2 * 1000 = 0.02 W per ml/min
        infusion_power == (infusion_rate_ml_min * params.I_sp_standard * eta * G_v)
                              \div (60 * Unit * Unit)
    IN  (P_input * Unit + infusion_power) \div weight_kg

(* StateEstimator::calculate_energy_proxy *)
calculate_energy_proxy(m) ==
    LET h_term == sigmoid(m.hydration_pct, 600, 10)
        b_term == exponential_decay(m.blood_loss_idx, 3)
        f_term == IF m.fatigue_idx < 700
                  THEN Unit - m.fatigue_idx
                  ELSE (3 * (Unit - m.fatigue_idx)) \div 10
        o_term == sigmoid(m.spo2_pct, 920, 30)
        l_term == exponential_decay(Max(0, m.lactate_mmol - 20), 50)
        energy == (30 * h_term + 25 * b_term + 20 * f_term + 15 * o_term + 10 * l_term) \div 100
    IN  clamp(energy, 0, Unit)

(* StateEstimator::calculate_metabolic_load *)
calculate_metabolic_load(m) ==
    LET hr_stress      == clamp((m.heart_rate_bpm - 60) * 10, 0, Unit)
        temp_stress    == (Abs(m.temp_celsius - 370) * 100) \div 3
        lactate_stress == clamp(m.lactate_mmol * 10, 0, Unit)
        anxiety_stress == m.anxiety_idx
    IN  clamp((30 * hr_stress + 25 * temp_stress + 25 * lactate_stress + 20 * anxiety_stress)
                  \div 100, 0, Unit)

(* StateEstimator::calculate_cardiac_reserve *)
calculate_cardiac_reserve(m, age_years) ==
    LET max_predicted_hr   == 220 - age_years
        current_percentage == (m.heart_rate_bpm * Unit) \div max_predicted_hr
        r0 == Unit - sigmoid(current_percentage, 850, 10)
        r1 == (r0 * clamp((m.spo2_pct * Unit) \div 950, Unit \div 2, Unit)) \div Unit
    IN  clamp(r1, 0, Unit)

(* StateEstimator::calculate_risk_score *)
calculate_risk_score(m, energy_T) ==
    LET blood_loss_risk  == m.blood_loss_idx
        hypoxia_risk     == clamp((950 - m.spo2_pct) * 10, 0, Unit)
        hypothermia_risk == Max(0, (360 - m.temp_celsius) * 50)
        R_critical       == Max(blood_loss_risk, Max(hypoxia_risk, hypothermia_risk))
        dehydration_risk == clamp((1000 - m.hydration_pct) * 2, 0, Unit)
        energy_depletion_risk == Unit - energy_T
        R_metabolic      == (4 * dehydration_risk + 6 * energy_depletion_risk) \div 10
        R_thermal        == Max(0, (m.temp_celsius - 385) * 50)
    IN  clamp((60 * R_critical + 30 * R_metabolic + 10 * R_thermal) \div 100, 0, Unit)

(* StateEstimator::estimate: the PatientState computed, eT being the value    *)
(* assigned to state.energy_T                                                *)
EstimateStateWith(m, prof, current_rate, thist, eT) ==
    LET coh  == calculate_coherence(m, thist)
        v    == estimate_flow_velocity(m, current_rate, prof.weight_kg)
        load == calculate_metabolic_load(m)
    IN  [hydration_pct     |-> clamp(m.hydration_pct, 0, 1000),
         heart_rate_bpm    |-> Max(0, m.heart_rate_bpm),
         coherence_sigma   |-> coh,
         energy_T          |-> eT,
         energy_T_absolute |-> calculate_energy_transfer_absolute(
                                   m, prof.energy_params, current_rate,
                                   prof.weight_kg, prof.current_tissue_perfusion),
         metabolic_load    |-> load,
         cardiac_reserve   |-> calculate_cardiac_reserve(m, prof.age_years),
         risk_score        |-> calculate_risk_score(m, eT),
         estimated_flow_velocity_cm_s |-> v,
         flow_efficiency   |-> gaussian(v, prof.energy_params.v_optimal_cm_s * 10,
                                        prof.energy_params.sigma_velocity * 10),
         uncertainty       |-> Unit - (coh * (Unit - (3 * load) \div 10)) \div Unit]

(* StateEstimator::estimate built without the neural estimator *)
EstimateState(m, prof, current_rate, thist) ==
    EstimateStateWith(m, prof, current_rate, thist, calculate_energy_proxy(m))

(* the statics of StateEstimator.cpp and NeuralStateEstimator's loaded_ at     *)
(* process start, with counters of what has been done with them               *)
InitNeural ==
    [g_neural_init |-> FALSE, loaded_ |-> FALSE, loads |-> 0, warnings |-> 0,
     predicts |-> 0, predicted |-> [none |-> TRUE], escaped |-> FALSE]

(* NeuralStateEstimator::load: fdeep::load_model returns, or throws            *)
(* std::runtime_error when the file is missing or invalid                      *)
LoadOutcomes == {"loaded", "std::runtime_error"}

(* what catch (const std::exception&) catches of it *)
StdExceptions == {"std::runtime_error"}

(* NeuralStateEstimator::predict: the network's output, a sigmoid, for inputs  *)
(* that the model file decides                                                 *)
NeuralOutputs == {0, 500, 1000}

(* g_neural_init never set *)
InitNeuralEstimatorRetrying(n, outcome) ==
    [n EXCEPT !.loads    = @ + 1,
              !.loaded_  = (outcome = "loaded"),
              !.warnings = IF outcome \in StdExceptions THEN @ + 1 ELSE @,
              !.escaped  = outcome \notin StdExceptions \cup {"loaded"}]

(* init_neural_estimator: load once, catch std::exception and warn *)
init_neural_estimator(n, outcome) ==
    IF n.g_neural_init THEN n
    ELSE [n EXCEPT !.g_neural_init = TRUE,
                   !.loads    = @ + 1,
                   !.loaded_  = (outcome = "loaded"),
                   !.warnings = IF outcome \in StdExceptions THEN @ + 1 ELSE @,
                   !.escaped  = outcome \notin StdExceptions \cup {"loaded"}]

(* StateEstimator::estimate: push_back, then pop_front past MAX_HISTORY *)
(* pop_back for pop_front *)
PushHistoryDropNewest(h, x) ==
    LET r == Append(h, x)
    IN  IF Len(r) > MAX_HISTORY THEN SubSeq(r, 1, Len(r) - 1) ELSE r

PushHistory(h, x) ==
    LET r == Append(h, x)
    IN  IF Len(r) > MAX_HISTORY THEN Tail(r) ELSE r

(* telemetry_history.push_back(m), and its pop_front under the test of the    *)
(* state history's size                                                       *)
PushTelemetry(th, m, history_size) ==
    LET r == Append(th, m)
    IN  IF history_size > MAX_HISTORY THEN Tail(r) ELSE r

NoForecast == [has_value |-> FALSE]

(* the extrapolation without the two clamps *)
PredictForwardUnclamped(h, minutes_ahead) ==
    IF Len(h) < FORECAST_HISTORY THEN NoForecast
    ELSE LET back == Last(h)
             old  == h[Len(h) - 4]
         IN  [has_value |-> TRUE,
              value |-> [back EXCEPT
                  !.hydration_pct = back.hydration_pct
                      + ((back.hydration_pct - old.hydration_pct) * minutes_ahead) \div 5,
                  !.energy_T = back.energy_T
                      + ((back.energy_T - old.energy_T) * minutes_ahead) \div 5,
                  !.uncertainty = Min(Unit, back.uncertainty + 50 * minutes_ahead)]]

(* history.size() < 6 for history.size() < 5 *)
PredictForwardNeedsSix(h, minutes_ahead) ==
    IF Len(h) < FORECAST_HISTORY + 1 THEN NoForecast
    ELSE [has_value |-> TRUE, value |-> Last(h)]

(* StateEstimator::predict_forward *)
predict_forward(h, minutes_ahead) ==
    IF Len(h) < FORECAST_HISTORY THEN NoForecast
    ELSE LET back  == Last(h)
             old   == h[Len(h) - 4]
             hydration_trend5 == back.hydration_pct - old.hydration_pct
             energy_trend5    == back.energy_T - old.energy_T
             p == [back EXCEPT
                     !.hydration_pct = clamp(back.hydration_pct
                                             + (hydration_trend5 * minutes_ahead) \div 5, 0, 1000),
                     !.energy_T      = clamp(back.energy_T
                                             + (energy_trend5 * minutes_ahead) \div 5, 0, Unit),
                     !.uncertainty   = Min(Unit, back.uncertainty + 50 * minutes_ahead)]
         IN  [has_value |-> TRUE, value |-> p]

-----------------------------------------------------------------------------
(* AdaptiveController; intermediate rates in 0.00001 ml/min *)
Fine == 10 * 100              \* fine units per rate unit
PREDICTION_HORIZON_MIN == 10

(* AdaptiveController::calculate_base_rate *)
calculate_base_rate(st) ==
    LET hydration_deficit == Unit - st.hydration_pct
        hydration_urgency == IF hydration_deficit < 500 THEN hydration_deficit
                             ELSE sigmoid(hydration_deficit, 500, 5)
        energy_gap     == Unit - st.energy_T
        energy_need    == (energy_gap * (2 * Unit + st.metabolic_load)) \div (2 * Unit)
        risk_amplifier == 2 * Unit + st.risk_score     \* halves of a thousandth
        x == clamp((((6 * hydration_urgency + 4 * energy_need) \div 10) * risk_amplifier)
                       \div (2 * Unit), 0, Unit)
    IN  40 * Fine + 140 * x

(* AdaptiveController::apply_coherence_modulation *)
apply_coherence_modulation(base_rate, st) == (base_rate * st.coherence_sigma) \div Unit

(* AdaptiveController::apply_cardiac_limiting *)
apply_cardiac_limiting(rate, st) ==
    IF st.cardiac_reserve < 300
    THEN (rate * (Unit + sigmoid(st.cardiac_reserve, 300, 10))) \div (2 * Unit)
    ELSE rate

(* the boost given whenever there is a forecast *)
PredictiveBoostAnyForecast(h) == predict_forward(h, PREDICTION_HORIZON_MIN).has_value

(* decide, step 2 *)
PredictiveBoost(h) ==
    LET predicted == predict_forward(h, PREDICTION_HORIZON_MIN)
    IN  predicted.has_value /\ predicted.value.hydration_pct < CRITICAL_HYDRATION

(* step 4 left out *)
DesiredRateUnclamped(st, h, prof) ==
    LET d1 == calculate_base_rate(st)
        d2 == IF PredictiveBoost(h) THEN (d1 * 12) \div 10 ELSE d1
    IN  apply_cardiac_limiting(apply_coherence_modulation(d2, st), st) \div Fine

(* decide, steps 1-4: the rate submitted to SafetyMonitor::evaluate *)
DesiredRate(st, h, prof) ==
    LET d1 == calculate_base_rate(st)
        d2 == IF PredictiveBoost(h) THEN (d1 * 12) \div 10 ELSE d1
        d3 == apply_coherence_modulation(d2, st)
        d4 == apply_cardiac_limiting(d3, st)
    IN  clamp(d4 \div Fine, MIN_INFUSION_RATE, prof.max_safe_infusion_rate)

(* the ceiling not applied *)
FinalRateIgnoringCeiling(desired_rate, safety_check) == desired_rate

(* decide, steps 5-6 *)
FinalRate(desired_rate, safety_check) ==
    IF desired_rate > safety_check.max_allowed_rate
    THEN safety_check.max_allowed_rate
    ELSE desired_rate

(* AdaptiveController::decide: the ControlOutput, given what evaluate returned *)
decide(st, h, prof, safety_check) ==
    LET desired_rate   == DesiredRate(st, h, prof)
        safety_limited == desired_rate > safety_check.max_allowed_rate
        rate           == FinalRate(desired_rate, safety_check)
    IN  [infusion_ml_per_min |-> rate,
         confidence      |-> Unit - st.uncertainty,
         rationale       |-> [u |-> rate, SAFETY_LIM |-> safety_limited,
                              PRED_BOOST |-> PredictiveBoost(h)],
         safety_override |-> ~safety_check.passed,
         warning_flags   |-> safety_check.warnings]

(* the rate of change bounded against the stored last_command *)
ControllerDecideSlewed(lc, st, h, prof, cum, maxvol, rates, elapsed) ==
    LET desired_rate == DesiredRate(st, h, prof)
        safety_check == evaluate(prof, cum, maxvol, rates, desired_rate, st, elapsed)
        output       == decide(st, h, prof, safety_check)
        rate         == Min(output.infusion_ml_per_min, lc + MAX_RATE_CHANGE)
    IN  [output |-> [output EXCEPT !.infusion_ml_per_min = rate], last_command |-> rate]

(* AdaptiveController::decide as a member function: from the controller's     *)
(* last_command, the state, the estimator's history and the monitor's members *)
(* to the ControlOutput and the new last_command                              *)
ControllerDecide(lc, st, h, prof, cum, maxvol, rates, elapsed) ==
    LET desired_rate == DesiredRate(st, h, prof)
        safety_check == evaluate(prof, cum, maxvol, rates, desired_rate, st, elapsed)
        output       == decide(st, h, prof, safety_check)
    IN  [output |-> output, last_command |-> output.infusion_ml_per_min]

-----------------------------------------------------------------------------
(* Inputs *)

(* Telemetry: tests/test_state_estimator.cpp, the dehydrated tachycardic tick, *)
(* exhaustion at a normal heart rate, a haemorrhage with hypoxia, and a        *)
(* detached sensor delivering out-of-range values                              *)
Healthy ==
    [hydration_pct |-> 800, heart_rate_bpm |-> 75, temp_celsius |-> 370,
     blood_loss_idx |-> 0, fatigue_idx |-> 0, anxiety_idx |-> 0,
     signal_quality |-> 1000, spo2_pct |-> 980, lactate_mmol |-> 0,
     cardiac_output_L_min |-> 0]

DehydratedTachy ==
    [Healthy EXCEPT !.hydration_pct = 400, !.heart_rate_bpm = 105,
                    !.cardiac_output_L_min = 50]

Exhausted ==
    [Healthy EXCEPT !.hydration_pct = 200, !.fatigue_idx = 900, !.lactate_mmol = 50,
                    !.cardiac_output_L_min = 50]

Haemorrhage ==
    [hydration_pct |-> 300, heart_rate_bpm |-> 170, temp_celsius |-> 355,
     blood_loss_idx |-> 800, fatigue_idx |-> 800, anxiety_idx |-> 500,
     signal_quality |-> 1000, spo2_pct |-> 880, lactate_mmol |-> 60,
     cardiac_output_L_min |-> 30]

Detached ==
    [hydration_pct |-> 1200, heart_rate_bpm |-> -10, temp_celsius |-> 0,
     blood_loss_idx |-> -500, fatigue_idx |-> 1500, anxiety_idx |-> 0,
     signal_quality |-> 50, spo2_pct |-> 0, lactate_mmol |-> -10,
     cardiac_output_L_min |-> 0]

Telemetries == {Healthy, DehydratedTachy, Exhausted, Haemorrhage, Detached}

(* the snapshots a test-style caller of the estimator feeds: in range, at the *)
(* edge, and out of range                                                     *)
EstimatorTelemetries == {Healthy, Haemorrhage, Detached}

(* PatientStates handed to evaluate by a test-style caller: those of           *)
(* tests/test_safety_monitor.cpp and two states with low hydration             *)
BlankState ==
    [hydration_pct |-> 900, heart_rate_bpm |-> 70, coherence_sigma |-> Unit,
     energy_T |-> Unit, energy_T_absolute |-> 0, metabolic_load |-> 0,
     cardiac_reserve |-> Unit, risk_score |-> 0,
     estimated_flow_velocity_cm_s |-> 0, flow_efficiency |-> 0, uncertainty |-> 0]

MonitorStates ==
    { BlankState,
      [BlankState EXCEPT !.cardiac_reserve = 100],
      [BlankState EXCEPT !.hydration_pct = 400],
      [BlankState EXCEPT !.hydration_pct = 400, !.heart_rate_bpm = 105,
                         !.risk_score = 800, !.cardiac_reserve = 150] }

(* requested rates: none, 1.0 (the tests) and 1.5 ml/min *)
RequestedRates == {0, 100, 150}

(* update_volume(rate, duration): 100 ml/min for 23 min (the tests) and for   *)
(* 22 min, one control period at 0.35 and at 0 ml/min, and a negative rate:   *)
(* the function takes any double and validates nothing                        *)
UpdateArgs == { <<10000, 6900>>, <<10000, 6600>>, <<35, 1>>, <<0, 1>>, <<-100, 300>> }

ClockStep == 10 * PeriodsPerMin      \* ten minutes

(* rates a caller records one control period at a time: 0.1, 0.4 and 1.5 ml/min *)
RingRates == {10, 40, 150}

(* values of a controller's last_command: the constructor's 0.4 and the two   *)
(* ends of the range of commands                                              *)
LastCommands == {10, 40, 150}

(* minutes_ahead is an int: the controller's 10, an hour, and a negative value *)
Horizons == {-10, 10, 60}

None == [none |-> TRUE]

-----------------------------------------------------------------------------
(* RestApiServer: the published data.  A payload is identified by the number  *)
(* of the update call that carries it; every field written by that call holds *)
(* that number, the constructor's defaults are payload 0.                     *)
ALERTS_KEPT  == 100           \* recent_alerts_.size() > 100
HISTORY_KEPT == 1000          \* telemetry_history_.size() > 1000

MaxPublishes == 3             \* update_* calls of the control thread

(* update_telemetry, update_patient_state, update_control_output, add_alert,  *)
(* update_config                                                              *)
Items == {"telemetry", "state", "control", "alert", "config"}

(* route_request: the paths with a handler that reads data_mutex_'s data *)
Paths == {"status", "telemetry", "telemetry_history", "control", "state", "alerts",
          "config"}

(* RestApiServer::RestApiServer *)
InitStore ==
    [telemetry |-> <<0, 0, 0, 0, 0, 0, 0>>, state |-> <<0, 0, 0, 0, 0>>,
     control |-> <<0, 0, 0>>, alerts |-> <<>>, config |-> <<0>>, history |-> <<>>]

(* a thread that is in no call *)
Idle == [pc |-> "idle", what |-> "", v |-> 0, i |-> 0, got |-> <<>>]

(* push_back, then erase(begin()) when over the limit *)
KeepLast(s, n) == IF Len(s) > n THEN Tail(s) ELSE s

(* the assignments of an update_* call, in the order of the code *)
UpdateSteps(item) ==
    CASE item = "telemetry" -> 8
      [] item = "state"     -> 5
      [] item = "control"   -> 3
      [] item = "alert"     -> 1
      [] item = "config"    -> 1

WriteStep(st, item, i, v) ==
    CASE item = "telemetry" /\ i <= 7 -> [st EXCEPT !.telemetry[i] = v]
      [] item = "telemetry" /\ i = 8  ->
             [st EXCEPT !.history = KeepLast(Append(@, v), HISTORY_KEPT)]
      [] item = "state"   -> [st EXCEPT !.state[i] = v]
      [] item = "control" -> [st EXCEPT !.control[i] = v]
      [] item = "alert"   -> [st EXCEPT !.alerts = KeepLast(Append(@, v), ALERTS_KEPT)]
      [] item = "config"  -> [st EXCEPT !.config = <<v>>]

(* the reads of a handle_* call, in the order of the code *)
ReadSteps(path) ==
    CASE path = "status"            -> 0
      [] path = "telemetry"         -> 7
      [] path = "telemetry_history" -> 1
      [] path = "control"           -> 3
      [] path = "state"             -> 5
      [] path = "alerts"            -> 1
      [] path = "config"            -> 1

ReadStep(st, path, i) ==
    CASE path = "telemetry"         -> st.telemetry[i]
      [] path = "telemetry_history" -> st.history
      [] path = "control"           -> st.control[i]
      [] path = "state"             -> st.state[i]
      [] path = "alerts"            -> st.alerts
      [] path = "config"            -> st.config[1]

(* the lock_guard taken without waiting for the mutex *)
CanLockAnyway(mutex) == TRUE

(* std::lock_guard<std::mutex> lock(data_mutex_): blocks until the mutex is free *)
CanLock(mutex) == mutex = "free"

-----------------------------------------------------------------------------
Init ==
    /\ profile \in Profiles
    /\ clock = 0
    /\ cumulative_volume_ml = 0
    /\ max_volume_24h_ml = MaxVolume24h(profile)
    /\ recent_rates = <<>>
    /\ last_check = clock
    /\ history = <<>>
    /\ telemetry_history = <<>>
    /\ last_command = 40
    /\ pc = "idle"
    /\ ticks = 0
    /\ next_tick = 0
    /\ start_time = 0
    /\ current_infusion_rate = 40
    /\ state = None
    /\ command = None
    /\ prev_command = None
    /\ check = None
    /\ eval_run = <<>>
    /\ volume_seen = None
    /\ returned = <<>>
    /\ changes = 0
    /\ calls = 0
    /\ forecast = None
    /\ applied = <<>>
    /\ evaluations = 0
    /\ running = FALSE
    /\ caller = "run"
    /\ stop_mark = 0
    /\ data_mutex_ = "free"
    /\ store = InitStore
    /\ updater = Idle
    /\ handler = Idle
    /\ response = None
    /\ completed = [item \in Items |-> <<>>]
    /\ neural = InitNeural
    /\ steady_run = None

-----------------------------------------------------------------------------
(* The member functions as steps on the objects of the session *)

Last2(s) == IF Len(s) > 2 THEN Tail(s) ELSE s

(* SafetyMonitor::evaluate *)
DoEvaluate(requested_rate, st) ==
    LET elapsed == clock - last_check
        res == evaluate(profile, cumulative_volume_ml, max_volume_24h_ml, recent_rates,
                        requested_rate, st, elapsed)
    IN  /\ last_check' = clock
        /\ check' = [requested_rate |-> requested_rate, state |-> st,
                     elapsed  |-> elapsed,
                     volume   |-> cumulative_volume_ml,
                     rates    |-> recent_rates,
                     ceilings |-> CeilingTrace(profile, cumulative_volume_ml,
                                     max_volume_24h_ml, recent_rates, requested_rate,
                                     st, elapsed),
                     result   |-> res]
        /\ eval_run' = Last2(Append(eval_run, [requested_rate |-> requested_rate,
                                               state |-> st, at |-> clock,
                                               result |-> res]))
        /\ evaluations' = evaluations + 1
        /\ UNCHANGED <<cumulative_volume_ml, max_volume_24h_ml, recent_rates, volume_seen,
                       applied>>

(* SafetyMonitor::update_volume *)
DoUpdateVolume(rate_ml_per_min, duration_min) ==
    /\ cumulative_volume_ml' = AddVolume(cumulative_volume_ml, rate_ml_per_min, duration_min)
    /\ recent_rates' = PushRate(recent_rates, rate_ml_per_min)
    /\ volume_seen' = [rate |-> rate_ml_per_min, duration |-> duration_min,
                       before |-> cumulative_volume_ml, after |-> cumulative_volume_ml']
    /\ eval_run' = <<>>
    /\ applied' = Append(applied, rate_ml_per_min)
    /\ UNCHANGED <<max_volume_24h_ml, last_check, check, evaluations>>

(* SafetyMonitor::reset_24h_counter *)
(* the whole monitor returned to its constructed state, the ring included *)
DoResetClearingRing ==
    /\ cumulative_volume_ml' = 0
    /\ recent_rates' = <<>>
    /\ volume_seen' = None
    /\ eval_run' = <<>>
    /\ UNCHANGED <<max_volume_24h_ml, last_check, check, applied, evaluations>>

DoReset ==
    /\ cumulative_volume_ml' = 0
    /\ volume_seen' = None
    /\ eval_run' = <<>>
    /\ UNCHANGED <<max_volume_24h_ml, recent_rates, last_check, check, applied,
                   evaluations>>

(* StateEstimator::predict_forward as its caller sees it: the argument, the   *)
(* number of estimate calls made before it, whether it was called before     *)
(* since the latest estimate, the history it read, its result                *)
Forecast(h, minutes_ahead, made, again) ==
    [minutes_ahead |-> minutes_ahead, made |-> made, again |-> again, size |-> Len(h),
     latest |-> IF h = <<>> THEN None ELSE Last(h),
     result |-> predict_forward(h, minutes_ahead)]

(* StateEstimator::estimate *)
DoEstimate(m, current_rate) ==
    LET st == EstimateState(m, profile, current_rate, telemetry_history)
    IN  /\ state' = st
        /\ history' = PushHistory(history, st)
        /\ telemetry_history' = PushTelemetry(telemetry_history, m, Len(history) + 1)
        /\ returned' = Append(returned, st)
        /\ forecast' = None

-----------------------------------------------------------------------------
(* A test-style caller of the SafetyMonitor (tests/test_safety_monitor.cpp) *)

MonEvaluate ==
    /\ calls < MaxCalls
    /\ \E r \in RequestedRates, st \in MonitorStates : DoEvaluate(r, st)
    /\ calls' = calls + 1
    /\ UNCHANGED <<profile, steady_run, neural, apiVars, shutdownVars, clock, estimatorVars, loopVars>>

MonUpdateVolume ==
    /\ calls < MaxCalls
    /\ \E a \in UpdateArgs : DoUpdateVolume(a[1], a[2])
    /\ calls' = calls + 1
    /\ UNCHANGED <<profile, steady_run, neural, apiVars, shutdownVars, clock, estimatorVars, loopVars>>

MonReset ==
    /\ calls < MaxCalls
    /\ DoReset
    /\ calls' = calls + 1
    /\ UNCHANGED <<profile, steady_run, neural, apiVars, shutdownVars, clock, estimatorVars, loopVars>>

(* time passes between two calls *)
ClockAdvance ==
    /\ clock < MaxClock * ClockStep
    /\ clock' = clock + ClockStep
    /\ UNCHANGED <<profile, steady_run, neural, apiVars, shutdownVars, monitorVars, estimatorVars, loopVars, seenVars, calls>>

NextMonitor == MonEvaluate \/ MonUpdateVolume \/ MonReset \/ ClockAdvance

SpecMonitor == Init /\ [][NextMonitor]_vars

-----------------------------------------------------------------------------
(* A test-style caller of the StateEstimator (tests/test_state_estimator.cpp) *)

EstEstimate ==
    /\ profile \in TestProfiles
    /\ Len(returned) < MaxEstimates
    /\ \E m \in EstimatorTelemetries :
          /\ \/ telemetry_history = <<>> /\ changes' = changes
             \/ telemetry_history # <<>> /\ m = Last(telemetry_history) /\ changes' = changes
             \/ telemetry_history # <<>> /\ m # Last(telemetry_history)
                  /\ changes < MaxChanges /\ changes' = changes + 1
          /\ DoEstimate(m, 100)
    /\ UNCHANGED <<profile, steady_run, neural, apiVars, shutdownVars, clock, monitorVars, seenVars, calls, pc, ticks,
                   next_tick, start_time, current_infusion_rate, command, prev_command,
                   last_command>>

(* the forecast taken from the history and the oldest state dropped *)
EstPredictConsuming ==
    /\ Len(returned) <= MaxForecastHistory
    /\ \E n \in Horizons : forecast' = Forecast(history, n, Len(returned), forecast # None)
    /\ history' = IF history = <<>> THEN history ELSE Tail(history)
    /\ UNCHANGED <<profile, steady_run, neural, apiVars, shutdownVars, clock, monitorVars, seenVars, calls, telemetry_history,
                   returned, changes, loopVars>>

(* predict_forward(minutes_ahead) on the history as it stands *)
EstPredict ==
    /\ Len(returned) <= MaxForecastHistory
    /\ \E n \in Horizons : forecast' = Forecast(history, n, Len(returned), forecast # None)
    /\ UNCHANGED <<profile, steady_run, neural, apiVars, shutdownVars, clock, monitorVars, seenVars, calls, history, telemetry_history,
                   returned, changes, loopVars>>

NextEstimator == EstEstimate \/ EstPredict

SpecEstimator == Init /\ [][NextEstimator]_vars

-----------------------------------------------------------------------------
(* The same caller of a StateEstimator built with ENABLE_NEURAL_ESTIMATOR *)
MaxNeuralEstimates == 3        \* estimate calls of that caller

(* StateEstimator::estimate: init_neural_estimator, then the network's output *)
(* or the formula for energy_T                                                *)
NeuralEstimate ==
    /\ Len(returned) < MaxNeuralEstimates
    /\ ~neural.escaped
    /\ \E m \in EstimatorTelemetries, outcome \in LoadOutcomes, e \in NeuralOutputs :
          LET n1 == init_neural_estimator(neural, outcome)
              eT == IF n1.loaded_ THEN e ELSE calculate_energy_proxy(m)
              st == EstimateStateWith(m, profile, 100, telemetry_history, eT)
          IN  IF n1.escaped
              THEN /\ neural' = n1
                   /\ UNCHANGED <<state, history, telemetry_history, returned, forecast>>
              ELSE /\ neural' = IF n1.loaded_
                                THEN [n1 EXCEPT !.predicts = @ + 1, !.predicted = e]
                                ELSE n1
                   /\ state' = st
                   /\ history' = PushHistory(history, st)
                   /\ telemetry_history' = PushTelemetry(telemetry_history, m, Len(history) + 1)
                   /\ returned' = Append(returned, st)
                   /\ forecast' = None
    /\ UNCHANGED <<profile, steady_run, apiVars, shutdownVars, clock, monitorVars, seenVars, calls,
                   changes, pc, ticks, next_tick, start_time, current_infusion_rate,
                   command, prev_command, last_command>>

(* predict_forward between two estimates *)
NeuralPredict ==
    /\ returned # <<>>
    /\ forecast = None
    /\ forecast' = Forecast(history, PREDICTION_HORIZON_MIN, Len(returned), FALSE)
    /\ UNCHANGED <<profile, steady_run, neural, apiVars, shutdownVars, clock, monitorVars, seenVars,
                   calls, history, telemetry_history, returned, changes, loopVars>>

NextNeural == NeuralEstimate \/ NeuralPredict

SpecNeural == Init /\ [][NextNeural]_vars

-----------------------------------------------------------------------------
(* AIIVSystem::start: the control loop *)
CONTROL_PERIOD == 1           \* control_period{200} ms

LoopStart ==
    /\ pc = "idle"
    /\ profile \in SessionProfiles
    /\ running' = TRUE
    /\ next_tick' = clock
    /\ start_time' = clock
    /\ pc' = "estimate"
    /\ UNCHANGED <<profile, steady_run, neural, apiVars, caller, stop_mark, clock, monitorVars, estimatorVars, seenVars, calls, ticks,
                   current_infusion_rate, state, command, prev_command, last_command>>

(* the values a read of `running` by the loop thread can return: the member   *)
(* is a plain bool that stop() writes from another thread, so once stop() has  *)
(* been called the read races with that write and may return what the loop     *)
(* thread wrote itself instead of what is in memory                            *)
RunningReads == IF caller = "run" THEN {running} ELSE {running, TRUE}

(* while (running); 1-2: acquire_telemetry, estimator.estimate *)
LoopEstimate ==
    /\ pc = "estimate"
    /\ TRUE \in RunningReads
    /\ ticks < MaxTicks
    /\ \E m \in Telemetries : DoEstimate(m, current_infusion_rate)
    /\ pc' = "decide"
    /\ UNCHANGED <<profile, steady_run, neural, apiVars, shutdownVars, clock, monitorVars, seenVars, calls, changes, ticks,
                   next_tick, start_time, current_infusion_rate, command, prev_command,
                   last_command>>

(* 3-4: controller.decide, current_infusion_rate *)
LoopDecide ==
    /\ pc = "decide"
    /\ DoEvaluate(DesiredRate(state, history, profile), state)
    /\ \E made \in {ControllerDecide(last_command, state, history, profile,
                                     cumulative_volume_ml, max_volume_24h_ml,
                                     recent_rates, clock - last_check)} :
          /\ command' = made.output
          /\ last_command' = made.last_command
    /\ prev_command' = command
    /\ current_infusion_rate' = command'.infusion_ml_per_min
    /\ forecast' = Forecast(history, PREDICTION_HORIZON_MIN, Len(returned), FALSE)
    /\ pc' = "update"
    /\ UNCHANGED <<profile, steady_run, neural, apiVars, shutdownVars, clock, history, telemetry_history, returned, changes, calls,
                   ticks, next_tick, start_time, state>>

(* the candidate recorded instead of the command *)
LoopUpdateWithCandidate ==
    /\ pc = "update"
    /\ DoUpdateVolume(check.requested_rate, CONTROL_PERIOD)
    /\ ticks' = ticks + 1
    /\ pc' = "sleep"
    /\ UNCHANGED <<profile, steady_run, neural, apiVars, shutdownVars, clock, estimatorVars, calls, next_tick, start_time,
                   current_infusion_rate, state, command, prev_command, last_command>>

(* 7: safety.update_volume *)
LoopUpdate ==
    /\ pc = "update"
    /\ DoUpdateVolume(command.infusion_ml_per_min, CONTROL_PERIOD)
    /\ ticks' = ticks + 1
    /\ pc' = "sleep"
    /\ UNCHANGED <<profile, steady_run, neural, apiVars, shutdownVars, clock, estimatorVars, calls, next_tick, start_time,
                   current_infusion_rate, state, command, prev_command, last_command>>

(* sleep_for(control_period): the deadline taken from the current time *)
LoopSleepRelative ==
    /\ pc = "sleep"
    /\ next_tick' = clock + CONTROL_PERIOD
    /\ clock' = next_tick'
    /\ pc' = "estimate"
    /\ UNCHANGED <<profile, steady_run, neural, apiVars, shutdownVars, monitorVars, estimatorVars, seenVars, calls, ticks, start_time,
                   current_infusion_rate, state, command, prev_command, last_command>>

(* 9: next_tick += control_period; sleep_until(next_tick) *)
LoopSleep ==
    /\ pc = "sleep"
    /\ next_tick' = next_tick + CONTROL_PERIOD
    /\ clock' = Max(clock, next_tick')
    /\ pc' = "estimate"
    /\ UNCHANGED <<profile, steady_run, neural, apiVars, shutdownVars, monitorVars, estimatorVars, seenVars, calls, ticks, start_time,
                   current_infusion_rate, state, command, prev_command, last_command>>

(* the work of an iteration takes time *)
LoopOverrun ==
    /\ pc \in {"decide", "update"}
    /\ clock < next_tick + MaxOverrun
    /\ clock' = clock + 1
    /\ UNCHANGED <<profile, steady_run, neural, apiVars, shutdownVars, monitorVars, estimatorVars, seenVars, calls, loopVars>>

NextLoop == LoopStart \/ LoopEstimate \/ LoopDecide \/ LoopUpdate \/ LoopSleep \/ LoopOverrun

SpecLoop == Init /\ [][NextLoop]_vars

Spec == SpecLoop

-----------------------------------------------------------------------------
(* AIIVSystem::start over a long session: hours of unchanged telemetry, then  *)
(* telemetry that changes again                                               *)
MaxSteadyTicks == 7            \* iterations before the hours of unchanged telemetry
MaxLateTicks   == 4            \* iterations after them

(* while (running); 1-2: acquire_telemetry, estimator.estimate *)
DayEstimate ==
    /\ pc = "estimate"
    /\ TRUE \in RunningReads
    /\ IF steady_run = None
       THEN Len(applied) < MaxSteadyTicks
       ELSE Len(applied) < steady_run.after + MaxLateTicks
    /\ \E m \in Telemetries :
          /\ (steady_run = None /\ telemetry_history # <<>>) => m = Last(telemetry_history)
          /\ DoEstimate(m, current_infusion_rate)
    /\ pc' = "decide"
    /\ UNCHANGED <<profile, steady_run, neural, apiVars, shutdownVars, clock, monitorVars,
                   seenVars, calls, changes, ticks, next_tick, start_time,
                   current_infusion_rate, command, prev_command, last_command>>

(* n copies of x: a queue of capacity n after n pushes of x *)
RECURSIVE Copies(_, _)
Copies(x, n) == IF n = 0 THEN <<>> ELSE Append(Copies(x, n - 1), x)

(* K >= MAX_HISTORY whole iterations of the loop taken at once.  It is taken    *)
(* when the next iteration repeats the one before it: the telemetry m is that   *)
(* of the last five iterations, estimate returns the state st that the last     *)
(* five entries of history hold, decide returns the command of the iteration    *)
(* before, which is also recent_rates.back() and current_infusion_rate, and no  *)
(* deadline was missed.  estimate reads the last five entries of                *)
(* telemetry_history, predict_forward the last five of history, check 3 the     *)
(* last rate: each repeated iteration leaves these as it found them and differs *)
(* from the one before only in cumulative_volume_ml, which only check 1 reads.  *)
(* K is the number of iterations for which check 1 stays silent.                *)
LoopSteadyRun ==
    /\ pc = "estimate"
    /\ TRUE \in RunningReads
    /\ steady_run = None
    /\ Len(history) >= 5
    /\ recent_rates # <<>>
    /\ clock = next_tick
    /\ clock - last_check = CONTROL_PERIOD
    /\ \E m \in {Last(telemetry_history)} :
       \E st \in {EstimateState(m, profile, current_infusion_rate, telemetry_history)} :
       \E made \in {ControllerDecide(last_command, st, PushHistory(history, st), profile,
                                     cumulative_volume_ml, max_volume_24h_ml, recent_rates,
                                     CONTROL_PERIOD)} :
       \E r \in {made.output.infusion_ml_per_min} :
       \E requested_rate \in {DesiredRate(st, PushHistory(history, st), profile)} :
       \E step \in {AddVolume(0, r, CONTROL_PERIOD)} :
       \E room \in {(max_volume_24h_ml * 9) \div 10
                       - ProjectedVolume(cumulative_volume_ml, requested_rate,
                                         CONTROL_PERIOD)} :
          /\ \A i \in 0..4 : history[Len(history) - i] = st
          /\ \A i \in 0..4 : telemetry_history[Len(telemetry_history) - i] = m
          /\ Last(recent_rates) = r
          /\ current_infusion_rate = r
          /\ command = made.output
          /\ step > 0
          /\ room >= 0
          /\ \E K \in {room \div step + 1} :
             \E before \in {cumulative_volume_ml + (K - 1) * step} :
             \E hK \in {Copies(st, MAX_HISTORY)} :
             \E rK \in {Copies(r, RATE_RING_SIZE)} :
                /\ K >= MAX_HISTORY
                /\ ~VolumeLimitHit(before, max_volume_24h_ml, requested_rate,
                                   CONTROL_PERIOD)
                /\ cumulative_volume_ml' = before + step
                /\ recent_rates' = rK
                /\ history' = hK
                /\ telemetry_history' = Copies(m, MAX_HISTORY)
                /\ state' = st
                /\ prev_command' = made.output
                /\ last_check' = clock + (K - 1) * CONTROL_PERIOD
                /\ clock' = clock + K * CONTROL_PERIOD
                /\ next_tick' = next_tick + K * CONTROL_PERIOD
                /\ ticks' = ticks + K
                /\ check' = [requested_rate |-> requested_rate, state |-> st,
                             elapsed  |-> CONTROL_PERIOD,
                             volume   |-> before,
                             rates    |-> rK,
                             ceilings |-> CeilingTrace(profile, before, max_volume_24h_ml,
                                             rK, requested_rate, st, CONTROL_PERIOD),
                             result   |-> evaluate(profile, before, max_volume_24h_ml, rK,
                                                   requested_rate, st, CONTROL_PERIOD)]
                /\ volume_seen' = [rate |-> r, duration |-> CONTROL_PERIOD,
                                   before |-> before, after |-> before + step]
                /\ evaluations' = evaluations + K
                /\ forecast' = Forecast(hK, PREDICTION_HORIZON_MIN, Len(returned), FALSE)
                /\ steady_run' = [ticks |-> K, after |-> Len(applied)]
    /\ eval_run' = <<>>
    /\ UNCHANGED <<profile, neural, apiVars, shutdownVars, max_volume_24h_ml, returned,
                   changes, applied, calls, pc, start_time, current_infusion_rate, command,
                   last_command>>

NextDay ==
    LoopStart \/ DayEstimate \/ LoopDecide \/ LoopUpdate \/ LoopSleep \/ LoopSteadyRun

SpecDay == Init /\ [][NextDay]_vars

-----------------------------------------------------------------------------
(* main(): the control thread runs start(), the main thread calls stop() and  *)
(* then join()                                                               *)

(* while (running) found false: "Control loop stopped", start() returns *)
LoopExit ==
    /\ pc = "estimate"
    /\ FALSE \in RunningReads
    /\ pc' = "done"
    /\ UNCHANGED <<profile, steady_run, neural, apiVars, shutdownVars, clock, monitorVars, estimatorVars, seenVars, calls,
                   ticks, next_tick, start_time, current_infusion_rate, state, command,
                   prev_command, last_command>>

(* system.stop(): nothing orders it after the first statement of start() *)
CallerStop ==
    /\ caller = "run"
    /\ running' = FALSE
    /\ caller' = "stopped"
    /\ stop_mark' = Len(returned)
    /\ UNCHANGED <<profile, steady_run, neural, apiVars, clock, monitorVars, estimatorVars, seenVars, calls, loopVars>>

(* control_thread.join() returns once start() has returned *)
CallerJoin ==
    /\ caller = "stopped"
    /\ pc = "done"
    /\ caller' = "joined"
    /\ UNCHANGED <<profile, steady_run, neural, apiVars, running, stop_mark, clock, monitorVars, estimatorVars, seenVars,
                   calls, loopVars>>

NextShutdown ==
    LoopStart \/ LoopEstimate \/ LoopDecide \/ LoopUpdate \/ LoopSleep \/ LoopExit
        \/ CallerStop \/ CallerJoin

SpecShutdown == Init /\ [][NextShutdown]_vars

-----------------------------------------------------------------------------
(* RestApiServer: the control thread publishes, the server thread answers *)

(* the number of update_* calls that have returned *)
Published ==
    Len(completed["telemetry"]) + Len(completed["state"]) + Len(completed["control"])
        + Len(completed["alert"]) + Len(completed["config"])

(* update_*: the lock_guard at the head of the call *)
UpdateBegin ==
    /\ updater.pc = "idle"
    /\ Published < MaxPublishes
    /\ CanLock(data_mutex_)
    /\ data_mutex_' = "control"
    /\ \E item \in Items :
          updater' = [pc |-> "write", what |-> item, v |-> Published + 1, i |-> 0,
                      got |-> <<>>]
    /\ UNCHANGED <<profile, steady_run, neural, shutdownVars, store, handler, response, completed, clock,
                   monitorVars, estimatorVars, seenVars, calls, loopVars>>

(* update_*: one assignment to the published data *)
UpdateWrite ==
    /\ updater.pc = "write"
    /\ updater.i < UpdateSteps(updater.what)
    /\ store' = WriteStep(store, updater.what, updater.i + 1, updater.v)
    /\ updater' = [updater EXCEPT !.i = @ + 1]
    /\ UNCHANGED <<profile, steady_run, neural, shutdownVars, data_mutex_, handler, response, completed, clock,
                   monitorVars, estimatorVars, seenVars, calls, loopVars>>

(* update_*: the call returns, the lock_guard is destroyed *)
UpdateEnd ==
    /\ updater.pc = "write"
    /\ updater.i = UpdateSteps(updater.what)
    /\ data_mutex_' = "free"
    /\ completed' = [completed EXCEPT ![updater.what] = Append(@, updater.v)]
    /\ updater' = Idle
    /\ UNCHANGED <<profile, steady_run, neural, shutdownVars, store, handler, response, clock,
                   monitorVars, estimatorVars, seenVars, calls, loopVars>>

(* handle_*: the lock_guard at the head of the handler *)
HandleBegin ==
    /\ handler.pc = "idle"
    /\ CanLock(data_mutex_)
    /\ data_mutex_' = "server"
    /\ \E path \in Paths :
          handler' = [pc |-> "read", what |-> path, v |-> 0, i |-> 0, got |-> <<>>]
    /\ UNCHANGED <<profile, steady_run, neural, shutdownVars, store, updater, response, completed, clock,
                   monitorVars, estimatorVars, seenVars, calls, loopVars>>

(* handle_*: one read of the published data into the JSON body *)
HandleRead ==
    /\ handler.pc = "read"
    /\ handler.i < ReadSteps(handler.what)
    /\ handler' = [handler EXCEPT !.i = @ + 1,
                                  !.got = Append(@, ReadStep(store, handler.what,
                                                             handler.i + 1))]
    /\ UNCHANGED <<profile, steady_run, neural, shutdownVars, data_mutex_, store, updater, response, completed,
                   clock, monitorVars, estimatorVars, seenVars, calls, loopVars>>

(* handle_*: return json.str(), the lock_guard is destroyed *)
HandleEnd ==
    /\ handler.pc = "read"
    /\ handler.i = ReadSteps(handler.what)
    /\ data_mutex_' = "free"
    /\ response' = [path |-> handler.what, body |-> handler.got]
    /\ handler' = Idle
    /\ UNCHANGED <<profile, steady_run, neural, shutdownVars, store, updater, completed, clock,
                   monitorVars, estimatorVars, seenVars, calls, loopVars>>

NextApi ==
    UpdateBegin \/ UpdateWrite \/ UpdateEnd \/ HandleBegin \/ HandleRead \/ HandleEnd

SpecApi == Init /\ [][NextApi]_vars

-----------------------------------------------------------------------------
(* A caller that records one rate per control period, as the loop does, long  *)
(* enough to fill the rate ring, and asks for evaluations once it has wrapped *)

RingUpdate ==
    /\ calls < MaxUpdates
    /\ \E r \in RingRates :
          /\ \/ applied = <<>> /\ changes' = changes
             \/ applied # <<>> /\ r = Last(applied) /\ changes' = changes
             \/ applied # <<>> /\ r # Last(applied)
                  /\ changes < MaxChanges /\ changes' = changes + 1
          /\ DoUpdateVolume(r, CONTROL_PERIOD)
    /\ calls' = calls + 1
    /\ UNCHANGED <<profile, steady_run, neural, apiVars, shutdownVars, clock, history, telemetry_history, returned, forecast, loopVars>>

RingEvaluate ==
    /\ evaluations < MaxRingEvaluations
    /\ Len(applied) > RATE_RING_SIZE
    /\ eval_run = <<>>
    /\ \E r \in RingRates : DoEvaluate(r, BlankState)
    /\ UNCHANGED <<profile, steady_run, neural, apiVars, shutdownVars, clock, estimatorVars, calls, loopVars>>

NextRing == RingUpdate \/ RingEvaluate

SpecRing == Init /\ [][NextRing]_vars


-----------------------------------------------------------------------------
(* Properties *)

Ml(n) == n * VolPerMl

(* C1: in every tick of the control loop the final commanded rate              *)
(* (ControlOutput.infusion_ml_per_min) lies in [0.1, max_safe_infusion_rate].  *)
C1_CommandInRange ==
    command # None =>
        /\ command.infusion_ml_per_min >= 10
        /\ command.infusion_ml_per_min <= profile.max_safe_infusion_rate

(* a later tick whose command the safety ceiling cut down *)
C1_Witness ==
    /\ command # None
    /\ prev_command # None
    /\ command.rationale.SAFETY_LIM
    /\ command.infusion_ml_per_min < profile.max_safe_infusion_rate

(* C2: the final commanded rates of two consecutive ticks differ by at most    *)
(* 0.3 ml/min in either direction, unless EMERGENCY_MIN_RATE fired in the      *)
(* later tick.                                                                 *)
C2_SlewLimitedBothWays ==
    (command # None /\ prev_command # None
        /\ ~Has(command.warning_flags, "EMERGENCY_MIN_RATE")) =>
        /\ command.infusion_ml_per_min - prev_command.infusion_ml_per_min <= 30
        /\ prev_command.infusion_ml_per_min - command.infusion_ml_per_min <= 30

(* C3: whenever cumulative volume plus requested rate times elapsed time       *)
(* exceeds 90 % of the 24 h ceiling, evaluate returns max_allowed_rate <= 0.3  *)
(* and the warnings contain VOLUME_LIMIT_APPROACH.                             *)
C3_VolumeLimit ==
    (check # None
        /\ check.volume + check.requested_rate * check.elapsed
              > (max_volume_24h_ml * 9) \div 10) =>
        /\ check.result.max_allowed_rate <= 30
        /\ Has(check.result.warnings, "VOLUME_LIMIT_APPROACH")

(* 2300 ml accumulated against the 2450 ml ceiling of a 70 kg profile *)
C3_Witness ==
    /\ check # None
    /\ profile.weight_kg = 70 /\ ~profile.cardiac_condition /\ ~profile.renal_impairment
    /\ max_volume_24h_ml = Ml(2450)
    /\ check.volume = Ml(2300)
    /\ check.requested_rate = 100
    /\ check.result.max_allowed_rate <= 30

(* C4: for every state with cardiac_reserve below 0.2, evaluate returns        *)
(* max_allowed_rate <= 0.5 and the warnings contain LOW_CARDIAC_RESERVE.       *)
C4_LowCardiacReserve ==
    (check # None /\ check.state.cardiac_reserve < 200) =>
        /\ check.result.max_allowed_rate <= 50
        /\ Has(check.result.warnings, "LOW_CARDIAC_RESERVE")

(* cardiac_reserve = 0.1 on the otherwise healthy state of the tests *)
C4_Witness ==
    /\ check # None
    /\ check.state = [BlankState EXCEPT !.cardiac_reserve = 100]
    /\ check.requested_rate = 100
    /\ check.result.max_allowed_rate = 50

(* C5: two evaluate calls in a row with the same arguments and neither         *)
(* update_volume nor reset_24h_counter in between return identical SafetyCheck *)
(* results. The arguments of the function are the requested rate and the       *)
(* PatientState; the elapsed time is not among them, so the two calls are      *)
(* taken at the same reading of the clock.                                     *)
C5_EvaluateRepeatable ==
    (Len(eval_run) = 2
        /\ eval_run[1].requested_rate = eval_run[2].requested_rate
        /\ eval_run[1].state = eval_run[2].state
        /\ eval_run[1].at = eval_run[2].at) =>
        eval_run[1].result = eval_run[2].result

(* C6 as stated: across update_volume calls with any arguments the value of    *)
(* get_cumulative_volume never decreases from one call to the next.            *)
C6_VolumeNeverDecreases ==
    volume_seen # None => volume_seen.after >= volume_seen.before

(* C6 as amended: across update_volume calls whose rate times duration is not  *)
(* negative, get_cumulative_volume never decreases from one call to the next.  *)
C6_VolumeMonotoneForNonNegative ==
    (volume_seen # None /\ volume_seen.rate * volume_seen.duration >= 0) =>
        volume_seen.after >= volume_seen.before

(* a second update_volume call that added volume *)
C6_Witness ==
    /\ volume_seen # None
    /\ Len(recent_rates) >= 2
    /\ volume_seen.before > 0
    /\ volume_seen.after > volume_seen.before

(* C7: passed is true exactly when max_allowed_rate >= 0.1; when checks 1-5    *)
(* leave the ceiling below 0.1 then, if hydration_pct < 50, the ceiling is     *)
(* raised to exactly 0.1, EMERGENCY_MIN_RATE is among the warnings and passed  *)
(* is true, and otherwise the ceiling is unchanged, EMERGENCY_MIN_RATE absent  *)
(* and passed false; the override never fires when the ceiling is >= 0.1.      *)
C7_EmergencyFloor ==
    check # None =>
        LET c5  == check.ceilings[6]
            r   == check.result
            low == check.state.hydration_pct < 500
            emergency == Has(r.warnings, "EMERGENCY_MIN_RATE")
        IN  /\ r.passed <=> (r.max_allowed_rate >= 10)
            /\ (c5 < 10 /\ low)  => (r.max_allowed_rate = 10 /\ emergency /\ r.passed)
            /\ (c5 < 10 /\ ~low) => (r.max_allowed_rate = c5 /\ ~emergency /\ ~r.passed)
            /\ (c5 >= 10)        => (r.max_allowed_rate = c5 /\ ~emergency)

(* the floor fired: checks 1-5 left a ceiling below 0.1 at hydration 40 % *)
C7_Witness ==
    /\ check # None
    /\ check.ceilings[6] < 10
    /\ check.ceilings[6] >= 0
    /\ check.state.hydration_pct = 400
    /\ Has(check.result.warnings, "EMERGENCY_MIN_RATE")

(* C8: each of the checks 1-5 can only lower the running ceiling, so the       *)
(* returned max_allowed_rate is <= max_safe_infusion_rate whenever             *)
(* EMERGENCY_MIN_RATE is not among the warnings.                               *)
C8_ChecksOnlyTighten ==
    check # None =>
        /\ \A i \in 1..5 : check.ceilings[i + 1] <= check.ceilings[i]
        /\ check.ceilings[1] = profile.max_safe_infusion_rate
        /\ ~Has(check.result.warnings, "EMERGENCY_MIN_RATE") =>
               check.result.max_allowed_rate <= profile.max_safe_infusion_rate

(* a call in which the rate-of-change check fired on a request below the last  *)
(* rate and other checks lowered the ceiling                                   *)
C8_Witness ==
    /\ check # None
    /\ Has(check.result.warnings, "RATE_CHANGE_LIMITED")
    /\ check.rates # <<>>
    /\ check.requested_rate < Last(check.rates)
    /\ check.ceilings[6] < check.ceilings[1]

(* C9 as stated: for every evaluate call, with any requested rate, state and   *)
(* history of update_volume calls, max_allowed_rate >= 0.                      *)
C9_CeilingNonNegative ==
    check # None => check.result.max_allowed_rate >= 0

(* C9 as amended: for every evaluate call whose requested rate is not negative *)
(* and whose latest recorded rate, if any, is not negative,                    *)
(* max_allowed_rate >= 0.                                                      *)
C9_CeilingNonNegativeForNonNegative ==
    (check # None
        /\ check.requested_rate >= 0
        /\ (check.rates # <<>> => Last(check.rates) >= 0)) =>
        check.result.max_allowed_rate >= 0

(* the rate-of-change check stepped down from a recorded rate below 0.3 *)
C9_Witness ==
    /\ check # None
    /\ check.rates # <<>>
    /\ Last(check.rates) >= 0
    /\ Last(check.rates) > check.requested_rate + 30
    /\ check.requested_rate >= 0
    /\ check.result.max_allowed_rate < 10

(* C10: the PatientState history holds at most 50 entries, and they are the    *)
(* states returned by the most recent min(n, 50) estimate calls in call order. *)
C10_HistoryIsLast50 ==
    /\ Len(history) <= 50
    /\ LET n == Len(returned)
           k == IF n < 50 THEN n ELSE 50
       IN  /\ Len(history) = k
           /\ \A i \in 1..k : history[i] = returned[n - k + i]

(* a 51st estimate evicted an entry that differs from its successor *)
C10_Witness ==
    /\ Len(returned) = 51
    /\ Len(history) = 50
    /\ returned[1] # returned[2]
    /\ history[1] = returned[2]

(* C11: predict_forward returns no forecast (an empty optional) exactly when   *)
(* fewer than 5 estimate calls have been made, and returns a forecast whenever *)
(* the history holds 5 or more entries.                                        *)
C11_ForecastIffFiveEstimates ==
    forecast # None =>
        /\ forecast.result.has_value <=> forecast.made >= 5
        /\ forecast.size >= 5 => forecast.result.has_value

(* predict_forward called after the fourth estimate: no forecast *)
C11_Witness ==
    /\ forecast # None
    /\ forecast.made = 4
    /\ ~forecast.result.has_value

C13_RingIsLast20 ==
    /\ Len(recent_rates) = Min(Len(applied), RATE_RING_SIZE)
    /\ recent_rates = LastN(applied, Len(recent_rates))
    /\ (eval_run # <<>> /\ applied # <<>>) =>
           (Has(check.result.warnings, "RATE_CHANGE_LIMITED")
               <=> Abs(check.requested_rate - Last(applied)) > MAX_RATE_CHANGE)

(* more than 20 calls made, the oldest rates evicted, the ring holding two     *)
(* different rates, and an evaluate made after the latest call                 *)
C13_Witness ==
    /\ Len(applied) > RATE_RING_SIZE
    /\ recent_rates[1] # Last(recent_rates)
    /\ eval_run # <<>>
    /\ Has(check.result.warnings, "RATE_CHANGE_LIMITED")

(* C14: for every decide call the output rate equals min(candidate, ceiling),  *)
(* candidate being the rate submitted to evaluate and ceiling the              *)
(* max_allowed_rate it returned; the output never exceeds the ceiling and the  *)
(* rationale carries SAFETY_LIM exactly when the candidate exceeded the        *)
(* ceiling.                                                                    *)
C14_OutputIsMinOfCandidateAndCeiling ==
    command # None =>
        /\ command.infusion_ml_per_min
               = Min(check.requested_rate, check.result.max_allowed_rate)
        /\ command.infusion_ml_per_min <= check.result.max_allowed_rate
        /\ command.rationale.SAFETY_LIM
               <=> check.requested_rate > check.result.max_allowed_rate

(* a decide whose candidate exceeded the ceiling *)
C14_Witness ==
    /\ command # None
    /\ check.requested_rate > check.result.max_allowed_rate
    /\ command.infusion_ml_per_min = check.result.max_allowed_rate
    /\ command.rationale.SAFETY_LIM

(* the tick in progress has decided: command and state belong to the same tick *)
Decided == pc \in {"update", "sleep"}

(* C15: a tick whose telemetry has hydration 40 % and heart rate 1.5 x baseline *)
(* carries TACHYCARDIA_DETECTED or HIGH_RISK_STATE in warning_flags, from any  *)
(* estimator and monitor state the loop reaches; every tick whose estimated    *)
(* heart rate exceeds 1.4 x baseline carries TACHYCARDIA_DETECTED and a final  *)
(* commanded rate <= 0.4 ml/min.                                               *)
C15_TachycardiaTick ==
    Decided =>
        /\ LET m == Last(telemetry_history)
           IN  (m.hydration_pct = 400 /\ m.heart_rate_bpm * 10 = profile.baseline_hr_bpm * 15)
                  => \/ Has(command.warning_flags, "TACHYCARDIA_DETECTED")
                     \/ Has(command.warning_flags, "HIGH_RISK_STATE")
        /\ state.heart_rate_bpm * 10 > profile.baseline_hr_bpm * 14
               => /\ Has(command.warning_flags, "TACHYCARDIA_DETECTED")
                  /\ command.infusion_ml_per_min <= TACHY_CAP

(* a later tick with hydration 40 % and heart rate 1.5 x baseline *)
C15_Witness ==
    /\ Decided
    /\ prev_command # None
    /\ Last(telemetry_history).hydration_pct = 400
    /\ Last(telemetry_history).heart_rate_bpm * 10 = profile.baseline_hr_bpm * 15
    /\ Has(command.warning_flags, "TACHYCARDIA_DETECTED")
    /\ command.infusion_ml_per_min <= TACHY_CAP

StateWithinBounds(st) ==
    /\ st.hydration_pct \in 0..1000
    /\ st.heart_rate_bpm >= 0
    /\ st.coherence_sigma \in (Unit \div 10)..Unit
    /\ st.energy_T \in 0..Unit
    /\ st.metabolic_load \in 0..Unit
    /\ st.cardiac_reserve \in 0..Unit
    /\ st.risk_score \in 0..Unit
    /\ st.flow_efficiency \in 0..Unit
    /\ st.uncertainty \in 0..Unit

(* C17: for every telemetry input, out-of-range raw values included, and after *)
(* any sequence of estimate calls, every PatientState returned by estimate and *)
(* stored in the history has hydration_pct in [0,100], heart_rate_bpm >= 0,    *)
(* coherence_sigma in [0.1,1], and energy_T, metabolic_load, cardiac_reserve,  *)
(* risk_score, flow_efficiency and uncertainty in [0,1].                       *)
C17_StateFieldsWithinBounds ==
    /\ state # None => StateWithinBounds(state)
    /\ \A i \in 1..Len(history) : StateWithinBounds(history[i])

(* an estimate of the out-of-range snapshot: hydration and heart rate cut to   *)
(* their bounds, coherence raised to its floor                                 *)
C17_Witness ==
    /\ state # None
    /\ Last(telemetry_history) = Detached
    /\ state.hydration_pct = 1000
    /\ state.heart_rate_bpm = 0
    /\ state.coherence_sigma = Unit \div 10
    /\ Len(history) > 1

(* C18: evaluate reads no wall clock and changes no monitor state: every       *)
(* member of the monitor is the same after an evaluate call as before it.      *)
C18_EvaluateChangesNoMember ==
    [][MonEvaluate => UNCHANGED <<cumulative_volume_ml, max_volume_24h_ml, recent_rates,
                                  last_check>>]_vars

(* C19: each tick runs estimate, decide (predict_forward, then evaluate) and   *)
(* update_volume exactly once and in that order, update_volume recording the   *)
(* tick's final command; when evaluate runs in tick n >= 2 the newest entry of *)
(* the rate ring is the final command of tick n-1, and the forecast used in    *)
(* tick n includes tick n's own estimate.                                      *)
C19_TickOrder ==
    /\ pc \in {"idle", "estimate", "sleep"} =>
           /\ Len(returned) = ticks /\ evaluations = ticks /\ Len(applied) = ticks
    /\ pc = "decide" =>
           /\ Len(returned) = ticks + 1 /\ evaluations = ticks /\ Len(applied) = ticks
    /\ pc = "update" =>
           /\ Len(returned) = ticks + 1 /\ evaluations = ticks + 1 /\ Len(applied) = ticks
           /\ forecast.made = ticks + 1
           /\ forecast.latest = state
           /\ check.state = state
           /\ check.rates = recent_rates
           /\ ticks >= 1 => Last(check.rates) = prev_command.infusion_ml_per_min
    /\ pc = "sleep" => Last(applied) = command.infusion_ml_per_min

(* the fifth tick has decided: a forecast was made, the ceiling cut the        *)
(* candidate, and evaluate compared against the fourth tick's command          *)
C19_Witness ==
    /\ pc = "update"
    /\ ticks = 4
    /\ forecast.result.has_value
    /\ command.rationale.SAFETY_LIM
    /\ Last(check.rates) = prev_command.infusion_ml_per_min
    /\ prev_command.infusion_ml_per_min # command.infusion_ml_per_min

(* C20: the deadline the k-th iteration suspends until is the loop's start     *)
(* time plus k periods, whatever the processing time of any iteration, and the *)
(* loop does not resume before it.                                             *)
C20_AbsoluteDeadlines ==
    pc # "idle" =>
        /\ next_tick = start_time
               + (IF pc = "sleep" THEN ticks - 1 ELSE ticks) * CONTROL_PERIOD
        /\ pc = "estimate" => clock >= next_tick

(* an iteration after the first whose work took a whole period *)
C20_Witness ==
    /\ pc = "sleep"
    /\ ticks >= 2
    /\ clock > next_tick

-----------------------------------------------------------------------------
(* C21: once stop() has been called the loop begins no further iteration:    *)
(* the number of iterations begun stays what it was when stop() was called   *)
(* (an iteration whose estimate has run counts as begun), under every         *)
(* interleaving of the two threads.                                           *)
C21_NoTickAfterStop == caller # "run" => Len(returned) = stop_mark

(* the orderly shutdown: stop() called during an iteration, the iteration     *)
(* completed through update_volume, the loop left and the join returned       *)
C21_OrderlyShutdown ==
    /\ caller = "joined"
    /\ ticks = stop_mark
    /\ ticks >= 2

-----------------------------------------------------------------------------
(* the update call whose payloads a path serves *)
ItemOf(path) ==
    CASE path = "telemetry" -> "telemetry" [] path = "telemetry_history" -> "telemetry"
      [] path = "control" -> "control" [] path = "state" -> "state"
      [] path = "alerts" -> "alert" [] path = "config" -> "config"

(* s is a run of consecutive elements of t *)
Window(s, t) ==
    \E k \in 0..Len(t) : k + Len(s) <= Len(t) /\ s = SubSeq(t, k + 1, k + Len(s))

(* every value in the body was written by one update call that had returned, *)
(* or by the constructor                                                      *)
Whole(r) ==
    CASE r.path = "status" -> r.body = <<>>
      [] r.path \in {"telemetry_history", "alerts"} ->
             Window(r.body[1], completed[ItemOf(r.path)])
      [] OTHER ->
             \E v \in 0..(Published + 1) :
                /\ \A i \in 1..Len(r.body) : r.body[i] = v
                /\ v = 0 \/ \E k \in 1..Len(completed[ItemOf(r.path)]) :
                                completed[ItemOf(r.path)][k] = v

(* C22: every read of the published data by a handler and every write by an   *)
(* update call happens while the thread holds data_mutex_; the body a handler *)
(* returns holds only values written entirely by update calls that had        *)
(* returned (or the constructor's), never part of an update; and a handler     *)
(* changes nothing of the estimator, the controller or the safety monitor.     *)
C22_PublishedUnderMutex ==
    /\ [](/\ updater.pc = "write" => data_mutex_ = "control"
          /\ handler.pc = "read" => data_mutex_ = "server"
          /\ response # None => Whole(response))
    /\ [][HandleBegin \/ HandleRead \/ HandleEnd
            => UNCHANGED <<monitorVars, history, telemetry_history, last_command, store>>]_vars

(* a handler answered with the payload of the second update while a third     *)
(* update of the same data had begun                                          *)
C22_Witness ==
    /\ response # None
    /\ response.path = "state"
    /\ response.body = <<2, 2, 2, 2, 2>>
    /\ completed["state"] = <<1, 2>>
    /\ updater.pc = "write"
    /\ updater.what = "state"
    /\ updater.i = 3

-----------------------------------------------------------------------------
(* decide has just returned: nothing has run since *)
DecideReturned == pc = "update" /\ clock = last_check

(* C23: in every decide of the loop the candidate rate carries the factor 1.2 *)
(* and the rationale the tag PRED_BOOST exactly when predict_forward(10)      *)
(* returned a forecast whose hydration is below 50 %; while the history holds *)
(* fewer than five states there is no forecast, no boost, and decide returns  *)
(* an ordinary ControlOutput: the candidate limited by the monitor's ceiling. *)
C23_BoostIffLowForecast ==
    DecideReturned =>
        LET f       == forecast.result
            boosted == f.has_value /\ f.value.hydration_pct < CRITICAL_HYDRATION
            d1      == calculate_base_rate(state)
            d2      == IF boosted THEN (d1 * 12) \div 10 ELSE d1
            d4      == apply_cardiac_limiting(apply_coherence_modulation(d2, state), state)
        IN  /\ forecast.minutes_ahead = PREDICTION_HORIZON_MIN
            /\ f.has_value = (Len(history) >= FORECAST_HISTORY)
            /\ command.rationale.PRED_BOOST = boosted
            /\ check.requested_rate
                 = clamp(d4 \div Fine, MIN_INFUSION_RATE, profile.max_safe_infusion_rate)
            /\ command.infusion_ml_per_min
                 = Min(check.requested_rate, check.result.max_allowed_rate)
            /\ command.warning_flags = check.result.warnings
            /\ Len(history) < FORECAST_HISTORY => ~command.rationale.PRED_BOOST

(* the fifth tick boosted, after four ticks that could not be *)
C23_Witness ==
    /\ Decided
    /\ Len(history) = FORECAST_HISTORY
    /\ command.rationale.PRED_BOOST
    /\ forecast.result.value.hydration_pct < CRITICAL_HYDRATION
    /\ check.requested_rate > 40

-----------------------------------------------------------------------------
(* C24: the ControlOutput of decide does not depend on the controller's       *)
(* stored last_command: a second controller that differs from the loop's only *)
(* in last_command, given the same state, the same history and the same       *)
(* monitor members, returns the ControlOutput the loop's controller returned. *)
C24_LastCommandNotRead ==
    DecideReturned =>
        \A lc \in LastCommands :
            ControllerDecide(lc, state, history, profile, check.volume, max_volume_24h_ml,
                             check.rates, check.elapsed).output = command

(* a decide made with a stored last_command that is none of the second        *)
(* controllers' and differs from the command returned                         *)
C24_Witness ==
    /\ Decided
    /\ prev_command # None
    /\ prev_command.infusion_ml_per_min \notin LastCommands
    /\ prev_command.infusion_ml_per_min # command.infusion_ml_per_min
    /\ last_command = command.infusion_ml_per_min

-----------------------------------------------------------------------------
(* C25: built with the neural estimator, the model load is attempted at most  *)
(* once, by the first estimate; when it failed one warning was written, no    *)
(* exception left estimate, predict is never called and every estimate's      *)
(* energy_T is the formula's value; when it succeeded no warning was written  *)
(* and every estimate's energy_T is the value predict returned.               *)
C25_LoadOnceThenFallback ==
    /\ neural.loads = (IF returned = <<>> THEN 0 ELSE 1)
    /\ neural.g_neural_init = (returned # <<>>)
    /\ ~neural.escaped
    /\ returned # <<>> =>
          IF neural.loaded_
          THEN /\ neural.warnings = 0
               /\ neural.predicts = Len(returned)
               /\ Last(returned).energy_T = neural.predicted
          ELSE /\ neural.warnings = 1
               /\ neural.predicts = 0
               /\ Last(returned).energy_T
                     = calculate_energy_proxy(Last(telemetry_history))

(* the load failed at the first estimate and two more estimates were made *)
C25_Witness ==
    /\ Len(returned) = 3
    /\ neural.g_neural_init
    /\ ~neural.loaded_
    /\ neural.warnings = 1
    /\ Last(telemetry_history) = Haemorrhage

-----------------------------------------------------------------------------
(* C26: in the loop, from the second tick on the command of a tick is at most *)
(* 0.3 ml/min above the command of the tick before; in the first tick the     *)
(* rate ring is empty, so check 3 leaves the ceiling alone and                *)
(* RATE_CHANGE_LIMITED is not among the warnings.                             *)
C26_RiseBoundedFromSecondTick ==
    Decided =>
        IF prev_command = None
        THEN /\ check.rates = <<>>
             /\ check.ceilings[4] = check.ceilings[3]
             /\ ~Has(command.warning_flags, "RATE_CHANGE_LIMITED")
        ELSE /\ check.rates # <<>>
             /\ Last(check.rates) = prev_command.infusion_ml_per_min
             /\ command.infusion_ml_per_min
                  <= prev_command.infusion_ml_per_min + MAX_RATE_CHANGE

(* a first tick whose command was more than 0.3 ml/min away from the rate the *)
(* session started with, and a later tick whose candidate was more than       *)
(* 0.3 ml/min above the command before it and was held to that command + 0.3  *)
C26_Witness ==
    /\ pc = "update"
    /\ applied # <<>>
    /\ Abs(applied[1] - 40) > MAX_RATE_CHANGE
    /\ Has(command.warning_flags, "RATE_CHANGE_LIMITED")
    /\ check.requested_rate > prev_command.infusion_ml_per_min + MAX_RATE_CHANGE
    /\ command.infusion_ml_per_min = prev_command.infusion_ml_per_min + MAX_RATE_CHANGE

-----------------------------------------------------------------------------
(* C27: in the loop, for a profile whose max_safe_infusion_rate is at least   *)
(* 0.1 ml/min, the ceiling evaluate returns is at least 0.1 ml/min in every   *)
(* tick, before and after check 6; so the check passes, safety_override is    *)
(* false and EMERGENCY_MIN_RATE is not among the warnings.                    *)
C27_CeilingNeverBelowMinimum ==
    (Decided /\ profile.max_safe_infusion_rate >= MIN_INFUSION_RATE) =>
        /\ \A i \in 1..6 : check.ceilings[i] >= MIN_INFUSION_RATE
        /\ check.result.max_allowed_rate >= MIN_INFUSION_RATE
        /\ check.result.passed
        /\ ~command.safety_override
        /\ ~Has(command.warning_flags, "EMERGENCY_MIN_RATE")
        /\ command.infusion_ml_per_min >= MIN_INFUSION_RATE

(* a tick at critically low hydration in which three checks tightened the     *)
(* ceiling, the rate-of-change check among them                               *)
C27_Witness ==
    /\ Decided
    /\ state.hydration_pct < CRITICAL_HYDRATION
    /\ Len(command.warning_flags) >= 3
    /\ Has(command.warning_flags, "RATE_CHANGE_LIMITED")
    /\ check.result.max_allowed_rate < profile.max_safe_infusion_rate
    /\ check.result.max_allowed_rate <= TACHY_CAP

-----------------------------------------------------------------------------
(* C28: the loop never resets the 24 h counter: no step of a session lowers   *)
(* cumulative_volume_ml.  So once the cumulative volume itself is above 90 %  *)
(* of the 24 h ceiling, every tick carries VOLUME_LIMIT_APPROACH and commands *)
(* at most 0.3 ml/min; and the volume check only caps: the command stays at   *)
(* least 0.1 ml/min, the check passes and there is no safety override.        *)
C28_VolumeCapNeverLifted ==
    /\ [](Decided /\ check.volume > (max_volume_24h_ml * 9) \div 10
            => /\ Has(command.warning_flags, "VOLUME_LIMIT_APPROACH")
               /\ command.infusion_ml_per_min <= VOLUME_CAP
               /\ command.infusion_ml_per_min >= MIN_INFUSION_RATE
               /\ check.result.passed
               /\ ~command.safety_override)
    /\ [][cumulative_volume_ml' >= cumulative_volume_ml]_vars

(* hours into a session: the second tick in a row decided with the cumulative *)
(* volume above 90 % of the ceiling, its candidate above 0.3 ml/min           *)
C28_Witness ==
    /\ pc = "update"
    /\ steady_run # None
    /\ Len(applied) >= steady_run.after + 2
    /\ check.volume - AddVolume(0, Last(applied), CONTROL_PERIOD)
          > (max_volume_24h_ml * 9) \div 10
    /\ check.requested_rate > VOLUME_CAP
    /\ command.infusion_ml_per_min = VOLUME_CAP

-----------------------------------------------------------------------------
(* C29: reset_24h_counter sets the cumulative volume to 0 and changes nothing *)
(* else: the rate ring, the 24 h ceiling and every other object of the        *)
(* session are as before.  So the rate-of-change check of the next evaluate   *)
(* still compares the requested rate against the rate of the last             *)
(* update_volume call made before the reset.                                  *)
C29_ResetClearsVolumeOnly ==
    /\ [][MonReset =>
             /\ cumulative_volume_ml' = 0
             /\ UNCHANGED <<max_volume_24h_ml, recent_rates, last_check, profile,
                            clock, estimatorVars>>]_vars
    /\ [](volume_seen = None /\ applied # <<>> /\ eval_run # <<>> =>
             /\ check.rates # <<>>
             /\ Last(check.rates) = Last(applied)
             /\ Has(check.result.warnings, "RATE_CHANGE_LIMITED")
                  <=> Abs(check.requested_rate - Last(applied)) > MAX_RATE_CHANGE)

(* update_volume, then reset_24h_counter, then an evaluate whose request is   *)
(* more than 0.3 ml/min from the rate delivered before the reset              *)
C29_Witness ==
    /\ volume_seen = None
    /\ applied # <<>>
    /\ eval_run # <<>>
    /\ cumulative_volume_ml = 0
    /\ check.volume = 0
    /\ Last(applied) > 0
    /\ Has(check.result.warnings, "RATE_CHANGE_LIMITED")

-----------------------------------------------------------------------------
(* C30: predict_forward is read-only: it changes neither the state history    *)
(* nor the telemetry history, so a call repeated with the same argument       *)
(* between two estimates returns the same forecast.  The two queues move in   *)
(* lockstep: after any sequence of estimate and predict_forward calls they    *)
(* have the same length, the number of estimate calls up to MAX_HISTORY.      *)
C30_ForecastReadsOnlyQueuesInLockstep ==
    /\ [][EstPredict => UNCHANGED <<history, telemetry_history, returned>>]_vars
    /\ [][(EstPredict /\ forecast # None
              /\ forecast'.minutes_ahead = forecast.minutes_ahead)
            => forecast'.result = forecast.result]_vars
    /\ [](/\ Len(history) = Len(telemetry_history)
          /\ Len(history) = Min(Len(returned), MAX_HISTORY))

(* a forecast asked for a second time since the latest estimate, the two     *)
(* queues holding the states and the samples of a changed telemetry level     *)
C30_Witness ==
    /\ forecast # None
    /\ forecast.again
    /\ forecast.result.has_value
    /\ forecast.result.value # forecast.latest
    /\ Len(history) = Len(telemetry_history)
    /\ Len(history) > FORECAST_HISTORY
    /\ telemetry_history[1] # Last(telemetry_history)

=============================================================================
